---- MODULE Spec2Model ----
(***************************************************************************)
(* A model of the lead generator application: the Streamlit run handler    *)
(* of streamlit_app.py (validation, cached construction of LeadGenerator,  *)
(* the sequential crew run, extraction of the final unit's raw output,     *)
(* result display and report), the tool initialisation and task wiring of  *)
(* src/lead_generator/crew.py, the sidebar of src/components/sidebar.py    *)
(* and the usage tracker of src/utils/pricing.py.                          *)
(*                                                                         *)
(* Text is modelled character by character: a Python str is a sequence of  *)
(* one-character strings, so that str.split, str.strip, slicing and        *)
(* json.loads are computed as the code computes them.                      *)
(***************************************************************************)
EXTENDS Integers, Sequences, FiniteSets, TLC

(***************************************************************************)
(* Bounds of the model (not program constants).                            *)
(***************************************************************************)
\* longest JSON array among the generated final outputs
MaxArrayLen == 2
\* how many characters beyond the truncation limit the longest raw text has
MaxOverrun == 2
\* the highest token count of one track_usage call and the number of calls
MaxTokens == 2
MaxCalls == 3

(***************************************************************************)
(* Python values.  A JSON value as json.loads builds it: int, str, None,   *)
(* list and dict.  A dict is a function from keys (str) to values: dict    *)
(* equality ignores insertion order.                                       *)
(***************************************************************************)
None == [t |-> "none"]
JInt(n) == [t |-> "int", v |-> n]
JStr(s) == [t |-> "str", v |-> s]
JList(xs) == [t |-> "list", v |-> xs]
JDict(f) == [t |-> "dict", v |-> f]
EmptyDict == JDict(<<>>)

IsDict(x) == x.t = "dict"
IsList(x) == x.t = "list"
IsStr(x) == x.t = "str"

(***************************************************************************)
(* Python str operations used by the extraction block.                     *)
(***************************************************************************)
\* the backtick character (a TLA+ string literal cannot hold it)
BQ == "BQ"

Whitespace == {" ", "\n"}

\* s[i-1 : i-1+len(p)] == p, for a 1-based position i
OccursAt(s, p, i) ==
    /\ i >= 1
    /\ i + Len(p) - 1 <= Len(s)
    /\ SubSeq(s, i, i + Len(p) - 1) = p

\* str.find from position i (1-based); 0 when there is no occurrence
Find(s, p, i) ==
    LET hits == {k \in i..(Len(s) - Len(p) + 1) : OccursAt(s, p, k)}
    IN IF hits = {} THEN 0 ELSE CHOOSE k \in hits : \A h \in hits : k <= h

\* p in s
Contains(s, p) == Find(s, p, 1) # 0

\* s.split(p): the pieces between successive non-overlapping occurrences
RECURSIVE Split(_, _)
Split(s, p) ==
    LET k == Find(s, p, 1)
    IN IF k = 0 THEN <<s>>
       ELSE <<SubSeq(s, 1, k - 1)>> \o Split(SubSeq(s, k + Len(p), Len(s)), p)

\* s.strip()
Strip(s) ==
    LET keep == {k \in 1..Len(s) : s[k] \notin Whitespace}
    IN IF keep = {} THEN <<>>
       ELSE LET lo == CHOOSE k \in keep : \A h \in keep : k <= h
                hi == CHOOSE k \in keep : \A h \in keep : k >= h
            IN SubSeq(s, lo, hi)

\* s[:n]
Prefix(s, n) == SubSeq(s, 1, IF Len(s) < n THEN Len(s) ELSE n)

(***************************************************************************)
(* json.loads.  The decoder scans the text from a position and returns     *)
(* [ok, val, next]: ok is FALSE where the decoder raises JSONDecodeError.  *)
(* The alphabet has no backslash, so strings have no escapes; a raw        *)
(* newline inside a string is a control character and is rejected.         *)
(***************************************************************************)
Digits == {"0", "1", "2", "3", "4", "5", "6", "7", "8", "9"}
DigitVal(c) ==
    CASE c = "0" -> 0 [] c = "1" -> 1 [] c = "2" -> 2 [] c = "3" -> 3
      [] c = "4" -> 4 [] c = "5" -> 5 [] c = "6" -> 6 [] c = "7" -> 7
      [] c = "8" -> 8 [] c = "9" -> 9

\* Deep stands for a run of opening brackets longer than the interpreter's
\* recursion limit lets the decoder nest: scan_once raises RecursionError
\* when it reaches it
Deep == "DEEP"

\* the outcomes of a scan: JSONDecodeError, RecursionError, or a value and
\* the position after it
Fail == [ok |-> FALSE, val |-> None, next |-> 0, raised |-> "JSONDecodeError"]
TooDeep == [ok |-> FALSE, val |-> None, next |-> 0, raised |-> "RecursionError"]
Done(v, n) == [ok |-> TRUE, val |-> v, next |-> n, raised |-> ""]

CharAt(s, i) == IF i >= 1 /\ i <= Len(s) THEN s[i] ELSE ""

\* WHITESPACE.match(s, i).end()
RECURSIVE SkipWs(_, _)
SkipWs(s, i) == IF CharAt(s, i) \in Whitespace THEN SkipWs(s, i + 1) ELSE i

\* scanstring: i is the position after the opening quote
RECURSIVE ScanString(_, _, _)
ScanString(s, i, acc) ==
    LET c == CharAt(s, i)
    IN IF c = "" \/ c = "\n" THEN Fail
       ELSE IF c = "\"" THEN Done(JStr(acc), i + 1)
       ELSE ScanString(s, i + 1, Append(acc, c))

\* the digits of an integer literal: 0 | [1-9][0-9]*
RECURSIVE ScanDigits(_, _, _)
ScanDigits(s, i, acc) ==
    IF CharAt(s, i) \in Digits
    THEN ScanDigits(s, i + 1, acc * 10 + DigitVal(CharAt(s, i)))
    ELSE Done(JInt(acc), i)

ScanNumber(s, i) ==
    IF CharAt(s, i) = "0" THEN Done(JInt(0), i + 1) ELSE ScanDigits(s, i, 0)

NullWord == <<"n", "u", "l", "l">>

RECURSIVE ScanOnce(_, _)
RECURSIVE ScanArray(_, _, _)
RECURSIVE ArrayElement(_, _, _)
RECURSIVE ArrayDelimiter(_, _, _)
RECURSIVE ScanObject(_, _, _)
RECURSIVE ObjectKey(_, _, _)
RECURSIVE ObjectColon(_, _, _, _)
RECURSIVE ObjectValue(_, _, _, _)
RECURSIVE ObjectDelimiter(_, _, _)
RECURSIVE ObjectNextKey(_, _, _)

\* JSONArray after '[': j is the position of the first non-blank character
OpenArray(s, j) ==
    IF CharAt(s, j) = "]" THEN Done(JList(<<>>), j + 1) ELSE ScanArray(s, j, <<>>)

\* JSONObject after '{': j is the position of the first non-blank character
OpenObject(s, j) ==
    IF CharAt(s, j) = "}" THEN Done(EmptyDict, j + 1)
    ELSE IF CharAt(s, j) = "\"" THEN ScanObject(s, j + 1, <<>>)
    ELSE Fail

\* scan_once: one JSON value starting exactly at position i
ScanOnce(s, i) ==
    IF CharAt(s, i) = Deep THEN TooDeep
    ELSE IF CharAt(s, i) = "\"" THEN ScanString(s, i + 1, <<>>)
    ELSE IF CharAt(s, i) = "{" THEN OpenObject(s, SkipWs(s, i + 1))
    ELSE IF CharAt(s, i) = "[" THEN OpenArray(s, SkipWs(s, i + 1))
    ELSE IF CharAt(s, i) = "n"
         THEN (IF OccursAt(s, NullWord, i) THEN Done(None, i + 4) ELSE Fail)
    ELSE IF CharAt(s, i) \in Digits THEN ScanNumber(s, i)
    ELSE Fail

\* JSONArray: i is the position of the next element, acc the elements so far
ScanArray(s, i, acc) == ArrayElement(s, ScanOnce(s, i), acc)

\* e is the scan of the element
ArrayElement(s, e, acc) ==
    IF ~e.ok THEN e ELSE ArrayDelimiter(s, SkipWs(s, e.next), Append(acc, e.val))

\* j is the position of the first non-blank character after the element
ArrayDelimiter(s, j, got) ==
    IF CharAt(s, j) = "]" THEN Done(JList(got), j + 1)
    ELSE IF CharAt(s, j) = "," THEN ScanArray(s, SkipWs(s, j + 1), got)
    ELSE Fail

\* JSONObject: i is the position after the opening quote of the next key,
\* acc the pairs so far; dict(pairs) keeps the last value of a repeated key
ScanObject(s, i, acc) == ObjectKey(s, ScanString(s, i, <<>>), acc)

\* k is the scan of the key
ObjectKey(s, k, acc) ==
    IF ~k.ok THEN Fail ELSE ObjectColon(s, k.val.v, SkipWs(s, k.next), acc)

\* j is the position of the first non-blank character after the key
ObjectColon(s, key, j, acc) ==
    IF CharAt(s, j) # ":" THEN Fail
    ELSE ObjectValue(s, key, ScanOnce(s, SkipWs(s, j + 1)), acc)

\* e is the scan of the value
ObjectValue(s, key, e, acc) ==
    IF ~e.ok THEN e
    ELSE ObjectDelimiter(s, SkipWs(s, e.next), (key :> e.val) @@ acc)

\* m is the position of the first non-blank character after the value
ObjectDelimiter(s, m, got) ==
    IF CharAt(s, m) = "}" THEN Done(JDict(got), m + 1)
    ELSE IF CharAt(s, m) = "," THEN ObjectNextKey(s, SkipWs(s, m + 1), got)
    ELSE Fail

\* q is the position of the first non-blank character after the comma
ObjectNextKey(s, q, got) ==
    IF CharAt(s, q) = "\"" THEN ScanObject(s, q + 1, got) ELSE Fail

\* json.loads(s): leading whitespace, one value, trailing whitespace, end
EndOfText(s, r) ==
    IF ~r.ok THEN r
    ELSE IF SkipWs(s, r.next) # Len(s) + 1 THEN Fail
    ELSE r

Loads(s) == EndOfText(s, ScanOnce(s, SkipWs(s, 1)))

(***************************************************************************)
(* The extraction block of the run branch (streamlit_app.py 187-244).      *)
(***************************************************************************)
FenceOpen == <<BQ, BQ, BQ, "j", "s", "o", "n">>
FenceClose == <<BQ, BQ, BQ>>
Ellipsis == <<".", ".", ".">>
K_raw_output == <<"r", "a", "w", "_", "o", "u", "t", "p", "u", "t">>
K_raw_data == <<"r", "a", "w", "_", "d", "a", "t", "a">>
K_error == <<"e", "r", "r", "o", "r">>
K_raw == <<"r", "a", "w">>
MsgCouldNotParse == <<"C", "o", "u", "l", "d", " ", "n", "o", "t", " ", "p", "a", "r", "s", "e", " ", "r", "e", "s", "u", "l", "t", "s">>
MsgNoValidResults == <<"N", "o", " ", "v", "a", "l", "i", "d", " ", "r", "e", "s", "u", "l", "t", "s", " ", "f", "o", "u", "n", "d">>

\* the slice bound of str(raw_output)[:500]
RawLimit == 500

\* the text before the marker, split('```json')[0], instead of the text after it
FencedTextBeforeMarker(raw) ==
    LET pieces == Split(raw, FenceOpen)
    IN IF Len(pieces) < 2 THEN [ok |-> FALSE, text |-> <<>>]
       ELSE [ok |-> TRUE, text |-> Strip(Split(pieces[1], FenceClose)[1])]

\* raw_output.split('```json')[1].split('```')[0].strip(); ok is FALSE where
\* the indexing raises IndexError
FencedText(raw) ==
    LET pieces == Split(raw, FenceOpen)
    IN IF Len(pieces) < 2 THEN [ok |-> FALSE, text |-> <<>>]
       ELSE [ok |-> TRUE, text |-> Strip(Split(pieces[2], FenceClose)[1])]

\* the text handed to json.loads and its result: the fenced text when the
\* marker is in the raw output, the whole raw output otherwise
ParseRaw(raw) ==
    IF Contains(raw, FenceOpen)
    THEN LET f == FencedText(raw) IN IF f.ok THEN Loads(f.text) ELSE Fail
    ELSE Loads(raw)

\* {key: str(raw_output)}
RawRecord(key, raw) == JDict(key :> JStr(raw))

\* the ellipsis added from 500 characters on, >= for >
TruncatedFromLimit(raw) ==
    Prefix(raw, RawLimit) \o (IF Len(raw) >= RawLimit THEN Ellipsis ELSE <<>>)

\* str(raw_output)[:500] + ('...' if len(str(raw_output)) > 500 else '')
Truncated(raw) ==
    Prefix(raw, RawLimit) \o (IF Len(raw) > RawLimit THEN Ellipsis ELSE <<>>)

\* {"error": msg, "raw": <truncated text>}
ErrorRecord(msg, raw) ==
    JDict((K_error :> JStr(msg)) @@ (K_raw :> JStr(Truncated(raw))))

\* a parsed list wrapped like a dict, instead of returned as it is
AsListWrappingLists(parsed, key, raw) ==
    IF IsList(parsed) \/ IsDict(parsed) THEN <<parsed>>
    ELSE <<RawRecord(key, raw)>>

\* a parsed dict returned without the wrapping list's branch: it falls into
\* the branch of the other values
AsListWithoutDictBranch(parsed, key, raw) ==
    IF IsList(parsed) THEN parsed.v
    ELSE <<RawRecord(key, raw)>>

\* the parsed value, instead of the raw text, under the diagnostic key
AsListKeepingScalar(parsed, key, raw) ==
    IF IsList(parsed) THEN parsed.v
    ELSE IF IsDict(parsed) THEN <<parsed>>
    ELSE <<JDict(key :> parsed)>>

\* "Ensure it's a list": list as is, dict wrapped, anything else replaced by
\* a record holding the raw text
AsList(parsed, key, raw) ==
    IF IsList(parsed) THEN parsed.v
    ELSE IF IsDict(parsed) THEN <<parsed>>
    ELSE <<RawRecord(key, raw)>>

\* except (json.JSONDecodeError, IndexError, AttributeError)
Caught == {"JSONDecodeError", "IndexError", "AttributeError"}
\* the block assigns results_list, or an exception leaves it
Listed(list) == [raised |-> FALSE, list |-> list]
Escaped == [raised |-> TRUE, list |-> <<>>]

\* lines 196-217: the last task's raw output
ExtractLastTask(raw) ==
    LET p == ParseRaw(raw)
    IN IF p.ok THEN Listed(AsList(p.val, K_raw_output, raw))
       ELSE IF p.raised \in Caught THEN Listed(<<RawRecord(K_raw_output, raw)>>)
       ELSE Escaped

\* lines 219-229 and 231-241: results.raw, or str(results)
ExtractFallback(raw, msg) ==
    LET p == ParseRaw(raw)
    IN IF p.ok THEN Listed(AsList(p.val, K_raw_data, raw))
       ELSE IF p.raised \in Caught THEN Listed(<<ErrorRecord(msg, raw)>>)
       ELSE Escaped

\* The value kickoff returns, by what the block can see of it: a CrewOutput
\* whose last task output has raw ("tasks"), one whose last task output has
\* no raw attribute ("no_task_raw"), or a value without tasks_output such as
\* a plain str ("no_tasks").  In each the text is the final unit's output.
Shapes == {"tasks", "no_task_raw", "no_tasks"}

Extract(results) ==
    IF results.shape = "tasks" THEN ExtractLastTask(results.raw)
    ELSE IF results.shape = "no_task_raw"
         THEN ExtractFallback(results.raw, MsgCouldNotParse)
    ELSE ExtractFallback(results.raw, MsgNoValidResults)

(***************************************************************************)
(* src/lead_generator/crew.py: LeadGenerator.                              *)
(* A credential is an opaque string; "" stands for both None and the empty *)
(* text input, which the code tests alike (truthiness).                    *)
(***************************************************************************)
NoTool == "None"
AgentNames == {"lead_generator", "contact_agent", "lead_qualifier", "sales_manager"}
TaskNames == {"lead_generation_task", "contact_research_task",
              "lead_qualification_task", "sales_management_task"}

\* _initialize_tools.  key is self.serper_api_key; provider says what the
\* environment does at this construction: whether crewai_tools imports and
\* whether SerperDevTool() and ScrapeWebsiteTool() construct without raising.
\* The result holds the two tool attributes, the environment binding written
\* on the way, the log lines and whether an exception leaves the method.
SearchInit(key, provider, env_serper) ==
    IF key # ""
    THEN IF provider.search_ok
         THEN [tool |-> "SerperDevTool", env |-> key, log |-> {"search initialized"}]
         ELSE [tool |-> NoTool, env |-> key, log |-> {"search failed"}]
    ELSE [tool |-> NoTool, env |-> env_serper, log |-> {"key not provided"}]

ScrapeInit(provider) ==
    IF provider.scrape_ok
    THEN [tool |-> "ScrapeWebsiteTool", log |-> {"scrape initialized"}]
    ELSE [tool |-> NoTool, log |-> {"scrape failed"}]

\* the scrape tool constructed inside the try block of the search tool: a
\* raising SerperDevTool() skips it
InitializeToolsOneTry(key, provider, env_serper) ==
    IF ~provider.import_ok
    THEN [search_tool |-> NoTool, scrape_tool |-> NoTool, env_serper |-> env_serper,
          log |-> {"crewai_tools not available"}, raised |-> FALSE]
    ELSE LET se == SearchInit(key, provider, env_serper)
             sc == ScrapeInit(provider)
             skipped == key # "" /\ ~provider.search_ok
         IN [search_tool |-> se.tool,
             scrape_tool |-> IF skipped THEN NoTool ELSE sc.tool,
             env_serper |-> se.env,
             log |-> IF skipped THEN se.log ELSE se.log \cup sc.log,
             raised |-> FALSE]

InitializeTools(key, provider, env_serper) ==
    IF ~provider.import_ok
    THEN [search_tool |-> NoTool, scrape_tool |-> NoTool, env_serper |-> env_serper,
          log |-> {"crewai_tools not available"}, raised |-> FALSE]
    ELSE LET se == SearchInit(key, provider, env_serper)
             sc == ScrapeInit(provider)
         IN [search_tool |-> se.tool, scrape_tool |-> sc.tool, env_serper |-> se.env,
             log |-> se.log \cup sc.log, raised |-> FALSE]

\* a qualifier that is also handed the scrape tool
AgentToolsQualifierScrapes(role, search_tool, scrape_tool) ==
    LET se == IF search_tool # NoTool THEN <<search_tool>> ELSE <<>>
        sc == IF scrape_tool # NoTool THEN <<scrape_tool>> ELSE <<>>
    IN CASE role = "lead_generator" -> se \o sc
         [] role = "contact_agent" -> se \o sc
         [] role = "lead_qualifier" -> se \o sc
         [] role = "sales_manager" -> <<>>

\* _create_*_agent: the tools list bound to each agent
AgentTools(role, search_tool, scrape_tool) ==
    LET se == IF search_tool # NoTool THEN <<search_tool>> ELSE <<>>
        sc == IF scrape_tool # NoTool THEN <<scrape_tool>> ELSE <<>>
    IN CASE role = "lead_generator" -> se \o sc
         [] role = "contact_agent" -> se \o sc
         [] role = "lead_qualifier" -> se
         [] role = "sales_manager" -> <<>>

\* _create_*_task: the context list of each task
TaskContext(task) ==
    CASE task = "lead_generation_task" -> <<>>
      [] task = "contact_research_task" -> <<"lead_generation_task">>
      [] task = "lead_qualification_task" ->
             <<"lead_generation_task", "contact_research_task">>
      [] task = "sales_management_task" -> <<"lead_qualification_task">>

\* a crew whose tasks list names qualification before contact research
CrewTasksQualificationFirst ==
    <<"lead_generation_task", "lead_qualification_task",
      "contact_research_task", "sales_management_task">>

\* crew(): the tasks list handed to Crew, which runs it in list order
CrewTasks ==
    <<"lead_generation_task", "contact_research_task",
      "lead_qualification_task", "sales_management_task">>

\* the configuration files as read at one construction: the entries present
Configs ==
    {[agents |-> AgentNames, tasks |-> TaskNames]}
    \cup {[agents |-> AgentNames \ {a}, tasks |-> TaskNames] : a \in AgentNames}
    \cup {[agents |-> AgentNames, tasks |-> TaskNames \ {k}] : k \in TaskNames}

\* what the environment does at one construction: crewai_tools fails to
\* import, or it imports and each tool constructor succeeds or raises
Providers ==
    {[import_ok |-> FALSE, search_ok |-> FALSE, scrape_ok |-> FALSE]}
    \cup [import_ok : {TRUE}, search_ok : BOOLEAN, scrape_ok : BOOLEAN]

NoInstance == [built |-> FALSE]

\* a constructor that goes on when the sales management entry is missing,
\* as an empty default for that entry would have it
NewLeadGeneratorDefaultSalesTask(serper_api_key, env_serper, provider, cfg) ==
    LET key == IF serper_api_key # "" THEN serper_api_key ELSE env_serper
        tools == InitializeTools(key, provider, env_serper)
        missing == (AgentNames \ cfg.agents)
                   \cup ((TaskNames \ {"sales_management_task"}) \ cfg.tasks)
    IN [ok |-> ~tools.raised /\ missing = {},
        error |-> IF tools.raised THEN "tool initialization"
                  ELSE IF missing # {} THEN "missing configuration entry"
                  ELSE "",
        env_serper |-> tools.env_serper,
        instance |-> [built |-> TRUE,
                      serper_api_key |-> key,
                      provider |-> provider,
                      init_log |-> tools.log,
                      search_tool |-> tools.search_tool,
                      scrape_tool |-> tools.scrape_tool,
                      agents_config |-> cfg.agents,
                      tasks_config |-> cfg.tasks,
                      agent_tools |-> [r \in AgentNames |->
                          AgentTools(r, tools.search_tool, tools.scrape_tool)],
                      tasks |-> CrewTasks,
                      context |-> [k \in TaskNames |-> TaskContext(k)]]]

\* LeadGenerator.__init__: ok is FALSE where the constructor raises; the
\* environment binding written by _initialize_tools stays written either way.
\* A missing agent entry raises in _create_*_agent (KeyError wrapped in
\* RuntimeError), a missing entry of the first three tasks raises KeyError
\* in _create_*_task, and the empty default of the sales management entry
\* reaches Task(**{}), which rejects a task without description
NewLeadGenerator(serper_api_key, env_serper, provider, cfg) ==
    LET key == IF serper_api_key # "" THEN serper_api_key ELSE env_serper
        tools == InitializeTools(key, provider, env_serper)
        missing == (AgentNames \ cfg.agents) \cup (TaskNames \ cfg.tasks)
    IN [ok |-> ~tools.raised /\ missing = {},
        error |-> IF tools.raised THEN "tool initialization"
                  ELSE IF missing # {} THEN "missing configuration entry"
                  ELSE "",
        env_serper |-> tools.env_serper,
        instance |-> [built |-> TRUE,
                      serper_api_key |-> key,
                      provider |-> provider,
                      init_log |-> tools.log,
                      search_tool |-> tools.search_tool,
                      scrape_tool |-> tools.scrape_tool,
                      agents_config |-> cfg.agents,
                      tasks_config |-> cfg.tasks,
                      agent_tools |-> [r \in AgentNames |->
                          AgentTools(r, tools.search_tool, tools.scrape_tool)],
                      tasks |-> CrewTasks,
                      context |-> [k \in TaskNames |-> TaskContext(k)]]]

(***************************************************************************)
(* src/utils/pricing.py: ModelsPricing.  total_cost is kept in millionths  *)
(* of a dollar, 30 for an input token and 60 for an output token, with     *)
(* exact arithmetic where the code adds floats.                            *)
(***************************************************************************)
InputTokenCost == 30
OutputTokenCost == 60

\* ModelsPricing.__init__
ModelsPricing == [total_tokens |-> 0, input_tokens |-> 0, output_tokens |-> 0, total_cost |-> 0]

\* a track_usage that adds only the input tokens to the total
TrackUsageTotalOfInput(self, input_tokens, output_tokens) ==
    [total_tokens |-> self.total_tokens + input_tokens,
     input_tokens |-> self.input_tokens + input_tokens,
     output_tokens |-> self.output_tokens + output_tokens,
     total_cost |-> self.total_cost
                    + (input_tokens * InputTokenCost + output_tokens * OutputTokenCost)]

\* track_usage: the tracker after the call
TrackUsage(self, input_tokens, output_tokens) ==
    [total_tokens |-> self.total_tokens + (input_tokens + output_tokens),
     input_tokens |-> self.input_tokens + input_tokens,
     output_tokens |-> self.output_tokens + output_tokens,
     total_cost |-> self.total_cost
                    + (input_tokens * InputTokenCost + output_tokens * OutputTokenCost)]

\* get_usage_summary: the dict it returns
GetUsageSummary(self) ==
    [total_tokens |-> self.total_tokens,
     input_tokens |-> self.input_tokens,
     output_tokens |-> self.output_tokens,
     total_cost |-> self.total_cost]

\* the counts a caller passes
TokenCounts == 0..MaxTokens
NoSummary == [returned |-> FALSE]
NoUsage == [calls |-> <<>>, summary |-> NoSummary]

(***************************************************************************)
(* src/components/sidebar.py: render_sidebar.                              *)
(***************************************************************************)
OpenAIKeys == {"", "sk"}
SerperKeys == {"", "k1"}
\* SERPER_API_KEY in the environment the server process is started with
ProcessSerperKeys == {"", "k0"}
Industries == {"", "FinTech"}
Countries == {"", "US"}

\* the environment after the two text inputs are read
SidebarEnv(env, openai_api_key, serp_api_key) ==
    [OPENAI_API_KEY |-> IF openai_api_key # "" THEN openai_api_key
                        ELSE env.OPENAI_API_KEY,
     SERPER_API_KEY |-> IF serp_api_key # "" THEN serp_api_key
                        ELSE env.SERPER_API_KEY]

\* the dict render_sidebar returns
SidebarConfig(openai_api_key, serp_api_key) ==
    [has_openai_key |-> openai_api_key # "", has_serp_key |-> serp_api_key # ""]

\* config.get('serper_api_key'): the dict has no such key, so this is None
ConfigSerperKey(config) ==
    IF "serper_api_key" \in DOMAIN config THEN config.serper_api_key ELSE ""

(***************************************************************************)
(* The result display (streamlit_app.py 246-329) and the report (331-415). *)
(***************************************************************************)
K_company_name == <<"c", "o", "m", "p", "a", "n", "y", "_", "n", "a", "m", "e">>
K_company == <<"c", "o", "m", "p", "a", "n", "y">>
K_score == <<"s", "c", "o", "r", "e">>
K_website_url == <<"w", "e", "b", "s", "i", "t", "e", "_", "u", "r", "l">>
K_link == <<"l", "i", "n", "k">>
K_sales_recommendations == <<"s", "a", "l", "e", "s", "_", "r", "e", "c", "o", "m", "m", "e", "n", "d", "a", "t", "i", "o", "n", "s">>
K_recommendation == <<"r", "e", "c", "o", "m", "m", "e", "n", "d", "a", "t", "i", "o", "n">>
K_displayed_recommendations == <<"_", "d", "i", "s", "p", "l", "a", "y", "e", "d", "_", "r", "e", "c", "o", "m", "m", "e", "n", "d", "a", "t", "i", "o", "n", "s">>
S_NA == JStr(<<"N", "/", "A">>)
S_UnknownCompany == JStr(<<"U", "n", "k", "n", "o", "w", "n", " ", "C", "o", "m", "p", "a", "n", "y">>)
S_UnnamedCompany == JStr(<<"U", "n", "n", "a", "m", "e", "d", " ", "C", "o", "m", "p", "a", "n", "y">>)
S_Empty == JStr(<<>>)
Absent == [t |-> "absent"]

\* key in lead, lead.get(key, default)
Has(lead, key) == key \in DOMAIN lead.v
Get(lead, key, default) == IF Has(lead, key) THEN lead.v[key] ELSE default

\* bool(x)
Truthy(x) ==
    CASE x.t = "none" -> FALSE
      [] x.t = "int" -> x.v # 0
      [] x.t = "str" -> x.v # <<>>
      [] x.t = "list" -> x.v # <<>>
      [] x.t = "dict" -> DOMAIN x.v # {}
      [] OTHER -> FALSE

\* float(x) for the scores that occur here (ints and strings of digits and
\* whitespace); ok is FALSE where float raises ValueError or TypeError
FloatOf(x) ==
    IF x.t = "int" THEN [ok |-> TRUE, val |-> x.v]
    ELSE IF x.t = "str" THEN
         LET s == Strip(x.v)
         IN IF s # <<>> /\ \A i \in 1..Len(s) : s[i] \in Digits
            THEN [ok |-> TRUE, val |-> ScanDigits(s, 1, 0).val.v]
            ELSE [ok |-> FALSE, val |-> 0]
    ELSE [ok |-> FALSE, val |-> 0]

\* the highest score st.progress(score / 10) accepts (a value in [0.0, 1.0])
ProgressMax == 10

\* the resolved recommendation text of lines 295-300, Absent without a key
DisplayRecommendations(lead) ==
    IF Has(lead, K_sales_recommendations) \/ Has(lead, K_recommendation)
    THEN Get(lead, K_sales_recommendations, Get(lead, K_recommendation, S_Empty))
    ELSE Absent

\* one pass of the display loop body over a dict: ok is FALSE where it
\* raises (float of the score, or the progress bar's range check); lead is
\* the dict after the body, with _displayed_recommendations stored in it
DisplayLead(idx, lead) ==
    LET f == FloatOf(Get(lead, K_score, JInt(0)))
        recs == DisplayRecommendations(lead)
    IN IF ~f.ok \/ f.val > ProgressMax THEN [ok |-> FALSE, shown |-> Absent, lead |-> lead]
       ELSE [ok |-> TRUE,
             shown |-> [idx |-> idx,
                        title |-> Get(lead, K_company_name, S_UnknownCompany),
                        company_name |-> Get(lead, K_company_name, S_NA),
                        score |-> Get(lead, K_score, S_NA),
                        website |-> Get(lead, K_website_url, S_NA),
                        recommendations |-> recs],
             lead |-> IF recs = Absent THEN lead
                      ELSE JDict((K_displayed_recommendations :> recs) @@ lead.v)]

\* the display loop from entry i on: non-dict entries are skipped, the
\* first raising body ends the loop
RECURSIVE DisplayLoop(_, _, _)
DisplayLoop(list, i, acc) ==
    IF i > Len(list) THEN acc
    ELSE IF ~IsDict(list[i]) THEN DisplayLoop(list, i + 1, acc)
    ELSE LET d == DisplayLead(i, list[i])
         IN IF ~d.ok THEN [acc EXCEPT !.raised = TRUE]
            ELSE DisplayLoop(list, i + 1,
                     [shown |-> Append(acc.shown, d.shown),
                      leads |-> [acc.leads EXCEPT ![i] = d.lead],
                      raised |-> FALSE])

Display(list) == DisplayLoop(list, 1, [shown |-> <<>>, leads |-> list, raised |-> FALSE])

\* one lead's section of the report
ReportLead(lead) ==
    LET recs == Get(lead, K_displayed_recommendations,
                    Get(lead, K_sales_recommendations,
                        Get(lead, K_recommendation, S_Empty)))
        anyrec == Has(lead, K_sales_recommendations) \/ Has(lead, K_recommendation)
                  \/ Has(lead, K_displayed_recommendations)
    IN [company_name |-> Get(lead, K_company_name, Get(lead, K_company, S_UnnamedCompany)),
        score |-> Get(lead, K_score, S_NA),
        website |-> IF Has(lead, K_website_url) \/ Has(lead, K_link)
                    THEN Get(lead, K_website_url, Get(lead, K_link, S_NA))
                    ELSE Absent,
        recommendations |-> IF anyrec /\ Truthy(recs) THEN recs ELSE Absent]

RECURSIVE ReportLeads(_, _)
ReportLeads(list, i) ==
    IF i > Len(list) THEN <<>>
    ELSE IF ~IsDict(list[i]) THEN ReportLeads(list, i + 1)
    ELSE <<ReportLead(list[i])>> \o ReportLeads(list, i + 1)

NoDownload == [kind |-> "none", leads |-> <<>>, raw_json |-> <<>>]

\* download_data, from st.session_state.get('results_list', [])
Report(stored) ==
    LET list == IF stored.set THEN stored.v ELSE <<>>
    IN IF list = <<>> THEN [kind |-> "empty", leads |-> <<>>, raw_json |-> <<>>]
       ELSE [kind |-> "report", leads |-> ReportLeads(list, 1), raw_json |-> list]

(***************************************************************************)
(* Final outputs the last unit may return.  Dumps writes a value as JSON   *)
(* text (separators ", " and ": "), the keys of a dict in KeyOrder.        *)
(***************************************************************************)
K_review == <<"r", "e", "v", "i", "e", "w">>
KeyOrder == <<K_company_name, K_company, K_score, K_review, K_website_url, K_link,
              K_sales_recommendations, K_recommendation>>

DigitChar(d) == CHOOSE c \in Digits : DigitVal(c) = d

RECURSIVE IntText(_)
IntText(n) == IF n < 10 THEN <<DigitChar(n)>> ELSE IntText(n \div 10) \o <<DigitChar(n % 10)>>

RECURSIVE Dumps(_)
RECURSIVE DumpsItems(_, _)
RECURSIVE DumpsPairs(_, _, _)
Dumps(x) ==
    CASE x.t = "none" -> NullWord
      [] x.t = "int" -> IntText(x.v)
      [] x.t = "str" -> <<"\"">> \o x.v \o <<"\"">>
      [] x.t = "list" -> <<"[">> \o DumpsItems(x.v, 1) \o <<"]">>
      [] x.t = "dict" -> <<"{">> \o DumpsPairs(x.v, 1, TRUE) \o <<"}">>
      [] x.t = "deep" -> <<Deep>>

DumpsItems(xs, i) ==
    IF i > Len(xs) THEN <<>>
    ELSE (IF i > 1 THEN <<",", " ">> ELSE <<>>) \o Dumps(xs[i]) \o DumpsItems(xs, i + 1)

DumpsPairs(f, i, first) ==
    IF i > Len(KeyOrder) THEN <<>>
    ELSE IF KeyOrder[i] \notin DOMAIN f THEN DumpsPairs(f, i + 1, first)
    ELSE (IF first THEN <<>> ELSE <<",", " ">>)
         \o <<"\"">> \o KeyOrder[i] \o <<"\"", ":", " ">> \o Dumps(f[KeyOrder[i]])
         \o DumpsPairs(f, i + 1, FALSE)

\* the text between an opening ```json line and a closing ``` fence
Fence(body) == FenceOpen \o <<"\n">> \o body \o <<"\n">> \o FenceClose
\* a fenced block with prose before and after it
InProse(body) == <<"x", " ", "\n">> \o Fence(body) \o <<"\n", "y">>

LeadA == JDict((K_company_name :> JStr(<<"a">>)) @@ (K_score :> JInt(7)))
LeadFence == JDict(K_review :> JStr(<<"b">> \o FenceClose))
LeadMarker == JDict(K_review :> JStr(FenceOpen \o <<"c">>))
\* a value nested beyond the decoder's recursion limit, and a lead holding it
DeepValue == [t |-> "deep", v |-> <<>>]
LeadDeep == JDict(K_review :> DeepValue)
ObjectElems == {LeadA, LeadFence, LeadMarker, LeadDeep}
ArrayElems == ObjectElems \cup {JInt(1)}
Lists(S) == UNION {[1..k -> S] : k \in 0..MaxArrayLen}
ObjectLists == Lists(ObjectElems)
AnyLists == Lists(ArrayElems)
SingleObjects == ObjectElems \cup {EmptyDict, JDict(K_review :> LeadA)}
Scalars == {JInt(7), JInt(0), JStr(<<"a">>), None}
LongTexts == {[i \in 1..(RawLimit + k) |-> "x"] : k \in 0..MaxOverrun}
OtherTexts ==
    {<<>>, <<"x">>, <<"[", "1", ",">>, <<"[", "1", ",", "]">>, <<"{", "\"", "a", "\"", "}">>,
     <<"0", "1">>, <<"7", " ", "x">>,
     FenceOpen, Fence(<<"x">>), Fence(<<>>), InProse(<<"[", "1">>)}
    \cup LongTexts
JsonTexts ==
    {Dumps(JList(l)) : l \in AnyLists}
    \cup {Dumps(x) : x \in SingleObjects \cup Scalars}
    \cup {<<" ", "7", "\n">>, <<"[", " ", "]">>, FenceOpen \o <<"[", "1", "]">>}
Fenced ==
    {Fence(Dumps(JList(l))) : l \in AnyLists}
    \cup {InProse(Dumps(JList(l))) : l \in AnyLists}
    \cup {Fence(Dumps(x)) : x \in SingleObjects \cup Scalars}
\* a lead whose review text holds the marker and then the deep nesting: its
\* serialisation is valid JSON as a whole
LeadMarkerDeep == JDict(K_review :> JStr(FenceOpen \o <<Deep>>))
DeepTexts == {<<Deep>>, Fence(<<Deep>>), Dumps(LeadMarkerDeep)}
RawInputs == OtherTexts \cup JsonTexts \cup Fenced \cup DeepTexts

\* leads for the display loop and the report: only alias keys, both keys
\* of each field, and scores that are null, text or beyond the scale
LeadAliases ==
    JDict((K_company :> JStr(<<"b">>)) @@ (K_link :> JStr(<<"l">>))
          @@ (K_recommendation :> JStr(<<"r">>)))
LeadBoth ==
    JDict((K_company_name :> JStr(<<"a">>)) @@ (K_company :> JStr(<<"b">>))
          @@ (K_website_url :> JStr(<<"w">>)) @@ (K_link :> JStr(<<"l">>))
          @@ (K_sales_recommendations :> JStr(<<"s">>))
          @@ (K_recommendation :> JStr(<<"r">>)))
LeadNullScore == JDict((K_company_name :> JStr(<<"a">>)) @@ (K_score :> None))
LeadTextScore == JDict(K_score :> JStr(<<"x">>))
LeadHighScore == JDict(K_score :> JInt(11))
DisplayElems ==
    {LeadA, LeadAliases, LeadBoth, LeadNullScore, LeadTextScore, LeadHighScore, JInt(1)}
DisplayLists == Lists(DisplayElems)
DisplayRaws == {Fence(Dumps(JList(l))) : l \in DisplayLists}

\* the final outputs the session model draws from
RunRaws ==
    {Fence(Dumps(JList(<<LeadA>>))), <<"x">>, <<Deep>>}
\* the output of a unit that is not the last
IntermediateRaws == {<<"o", "k">>}
\* the messages of the exceptions a unit's execution raises
Causes == {"timeout", "rate limit"}

(***************************************************************************)
(* The session: the run handler of streamlit_app.py.                       *)
(***************************************************************************)
VARIABLES
    environ,        \* os.environ: OPENAI_API_KEY and SERPER_API_KEY
    cache,          \* st.cache_resource of get_lead_generator, by argument
    session_state,  \* st.session_state: results and results_list
    run_state,      \* idle, running, rendering, reporting, completed or failed
    lead_gen,       \* the LeadGenerator the current run uses
    context,        \* the units executed in the current run, in order
    exc,            \* the exception the run-level handler caught
    ui,             \* what the current script run has rendered
    sidebar,        \* the text inputs of the sidebar as the current script run read them
    pricing_tracker,    \* st.session_state.pricing_tracker, a ModelsPricing
    usage_log       \* the track_usage calls made on it and the last summary it returned

vars == <<environ, cache, session_state, run_state, lead_gen, context, exc, ui, sidebar,
          pricing_tracker, usage_log>>

NoException == [kind |-> "none", message |-> "", origin |-> ""]
NoUI ==
    [status |-> "none", error |-> <<>>, warning |-> <<>>, shown |-> <<>>,
     raw_view |-> Absent, code |-> Absent, download |-> NoDownload]
NotStored == [set |-> FALSE, v |-> <<>>]
NoResults == [shape |-> "none", raw |-> <<>>]

Init ==
    /\ environ \in [OPENAI_API_KEY : OpenAIKeys, SERPER_API_KEY : ProcessSerperKeys]
    /\ cache = [k \in SerperKeys |-> NoInstance]
    /\ session_state = [results |-> NoResults, results_list |-> NotStored]
    /\ run_state = "idle"
    /\ lead_gen = NoInstance
    /\ context = <<>>
    /\ exc = NoException
    /\ ui = NoUI
    /\ sidebar = [serp_api_key |-> ""]
    /\ pricing_tracker = ModelsPricing
    /\ usage_log = NoUsage

\* get_lead_generator(serper_api_key=config.get('serper_api_key')): the cached
\* instance for the argument, or a new one, which is cached when built
\* get_lead_generator without the cache decorator: every call constructs
GetLeadGeneratorUncached(arg, env_serper, provider, cfg) ==
    LET b == NewLeadGenerator(arg, env_serper, provider, cfg)
    IN [ok |-> b.ok, error |-> b.error, env_serper |-> b.env_serper,
        instance |-> b.instance,
        cache |-> IF b.ok THEN [cache EXCEPT ![arg] = b.instance] ELSE cache]

GetLeadGenerator(arg, env_serper, provider, cfg) ==
    IF cache[arg].built
    THEN [ok |-> TRUE, error |-> "", env_serper |-> env_serper,
          instance |-> cache[arg], cache |-> cache]
    ELSE LET b == NewLeadGenerator(arg, env_serper, provider, cfg)
         IN [ok |-> b.ok, error |-> b.error, env_serper |-> b.env_serper,
             instance |-> b.instance,
             cache |-> IF b.ok THEN [cache EXCEPT ![arg] = b.instance] ELSE cache]

\* at a cache hit no constructor runs, so what the environment would do at
\* a construction is not consulted: the call is made with these
WorkingProvider == [import_ok |-> TRUE, search_ok |-> TRUE, scrape_ok |-> TRUE]
CompleteConfig == [agents |-> AgentNames, tasks |-> TaskNames]

\* a handler that goes on to offer the stored list for download
ErrorUIWithDownload(e) ==
    [NoUI EXCEPT !.status = "error", !.error = <<"An error occurred: ", e.message>>,
                 !.download = Report(session_state.results_list)]
\* a handler that reports the error and lets the crew go on
FailedRunGoesOn(e) ==
    [run_state |-> "running",
     ui |-> [NoUI EXCEPT !.status = "error", !.error = <<"An error occurred: ", e.message>>]]

\* the run-level handler (447-450): status error, st.error(str(e)), st.stop()
ErrorUI(e) ==
    [NoUI EXCEPT !.status = "error", !.error = <<"An error occurred: ", e.message>>]
FailedRun(e) == [run_state |-> "failed", ui |-> ErrorUI(e)]

\* a script rerun without the Generate button: a widget was edited
Rerun(openai_api_key, serp_api_key) ==
    /\ run_state \in {"idle", "completed", "failed"}
    /\ environ' = SidebarEnv(environ, openai_api_key, serp_api_key)
    /\ run_state' = "idle"
    /\ lead_gen' = NoInstance
    /\ context' = <<>>
    /\ exc' = NoException
    /\ ui' = NoUI
    /\ sidebar' = [serp_api_key |-> serp_api_key]
    /\ UNCHANGED <<pricing_tracker, usage_log>>
    /\ UNCHANGED <<cache, session_state>>

\* a validation branch that also resets the stored results
GenerateMissingInputResets(openai_api_key, serp_api_key, industry, country) ==
    /\ run_state \in {"idle", "completed", "failed"}
    /\ industry = "" \/ country = ""
    /\ environ' = SidebarEnv(environ, openai_api_key, serp_api_key)
    /\ run_state' = "idle"
    /\ lead_gen' = NoInstance
    /\ context' = <<>>
    /\ exc' = NoException
    /\ ui' = [NoUI EXCEPT !.error = <<"Please enter an industry and country">>]
    /\ sidebar' = [serp_api_key |-> serp_api_key]
    /\ UNCHANGED <<pricing_tracker, usage_log>>
    /\ session_state' = [results |-> NoResults, results_list |-> NotStored]
    /\ UNCHANGED cache

\* Generate with the industry or the country missing (148-150)
GenerateMissingInput(openai_api_key, serp_api_key, industry, country) ==
    /\ run_state \in {"idle", "completed", "failed"}
    /\ industry = "" \/ country = ""
    /\ environ' = SidebarEnv(environ, openai_api_key, serp_api_key)
    /\ run_state' = "idle"
    /\ lead_gen' = NoInstance
    /\ context' = <<>>
    /\ exc' = NoException
    /\ ui' = [NoUI EXCEPT !.error = <<"Please enter an industry and country">>]
    /\ sidebar' = [serp_api_key |-> serp_api_key]
    /\ UNCHANGED <<pricing_tracker, usage_log>>
    /\ UNCHANGED <<cache, session_state>>

\* Generate without an OpenAI key in the environment (151-152)
GenerateMissingKey(openai_api_key, serp_api_key, industry, country) ==
    /\ run_state \in {"idle", "completed", "failed"}
    /\ industry # "" /\ country # ""
    /\ SidebarEnv(environ, openai_api_key, serp_api_key).OPENAI_API_KEY = ""
    /\ environ' = SidebarEnv(environ, openai_api_key, serp_api_key)
    /\ run_state' = "idle"
    /\ lead_gen' = NoInstance
    /\ context' = <<>>
    /\ exc' = NoException
    /\ ui' = [NoUI EXCEPT !.warning = <<"Please enter your OpenAI API key">>]
    /\ sidebar' = [serp_api_key |-> serp_api_key]
    /\ UNCHANGED <<pricing_tracker, usage_log>>
    /\ UNCHANGED <<cache, session_state>>

\* Generate, up to the call of kickoff (153-172), when the cache holds an
\* instance for the argument: no constructor runs
GenerateCached(openai_api_key, serp_api_key, industry, country) ==
    LET env == SidebarEnv(environ, openai_api_key, serp_api_key)
        config == SidebarConfig(openai_api_key, serp_api_key)
        g == GetLeadGenerator(ConfigSerperKey(config), env.SERPER_API_KEY,
                              WorkingProvider, CompleteConfig)
    IN /\ run_state \in {"idle", "completed", "failed"}
       /\ industry # "" /\ country # ""
       /\ env.OPENAI_API_KEY # ""
       /\ cache[ConfigSerperKey(config)].built
       /\ environ' = [env EXCEPT !.SERPER_API_KEY = g.env_serper]
       /\ cache' = g.cache
       /\ context' = <<>>
       /\ lead_gen' = g.instance
       /\ run_state' = "running"
       /\ exc' = NoException
       /\ ui' = [NoUI EXCEPT !.status = "running"]
       /\ sidebar' = [serp_api_key |-> serp_api_key]
       /\ UNCHANGED <<pricing_tracker, usage_log>>
       /\ UNCHANGED session_state

\* Generate, up to the call of kickoff, when the cache holds no instance:
\* the constructor runs, and a raising constructor is caught by the run
\* handler
GenerateBuild(openai_api_key, serp_api_key, industry, country, provider, cfg) ==
    LET env == SidebarEnv(environ, openai_api_key, serp_api_key)
        config == SidebarConfig(openai_api_key, serp_api_key)
        g == GetLeadGenerator(ConfigSerperKey(config), env.SERPER_API_KEY, provider, cfg)
        e == [kind |-> "construction", message |-> g.error, origin |-> "LeadGenerator"]
    IN /\ run_state \in {"idle", "completed", "failed"}
       /\ industry # "" /\ country # ""
       /\ env.OPENAI_API_KEY # ""
       /\ ~cache[ConfigSerperKey(config)].built
       /\ environ' = [env EXCEPT !.SERPER_API_KEY = g.env_serper]
       /\ cache' = g.cache
       /\ context' = <<>>
       /\ IF g.ok
          THEN /\ lead_gen' = g.instance
               /\ run_state' = "running"
               /\ exc' = NoException
               /\ ui' = [NoUI EXCEPT !.status = "running"]
          ELSE /\ lead_gen' = NoInstance
               /\ run_state' = FailedRun(e).run_state
               /\ exc' = e
               /\ ui' = FailedRun(e).ui
       /\ sidebar' = [serp_api_key |-> serp_api_key]
       /\ UNCHANGED <<pricing_tracker, usage_log>>
       /\ UNCHANGED session_state

\* the next unit of the crew, and the outputs of its context units that
\* exist when it starts
NextUnit == lead_gen.tasks[Len(context) + 1]
Completed == {context[i].unit : i \in 1..Len(context)}
Upstream(unit) == SelectSeq(lead_gen.context[unit], LAMBDA u : u \in Completed)

\* kickoff: the next unit executes and returns its raw output
ExecUnitReturns(raw) ==
    /\ run_state = "running"
    /\ Len(context) < Len(lead_gen.tasks)
    /\ raw \in (IF Len(context) + 1 = Len(lead_gen.tasks) THEN RunRaws ELSE IntermediateRaws)
    /\ context' = Append(context, [unit |-> NextUnit, raw |-> raw, upstream |-> Upstream(NextUnit)])
    /\ UNCHANGED <<environ, cache, session_state, run_state, lead_gen, exc, ui, sidebar,
                   pricing_tracker, usage_log>>

\* a run handler that also drops the stored results of the session
ExecUnitRaisesDropsResults(cause) ==
    LET e == [kind |-> "execution", message |-> cause, origin |-> NextUnit]
    IN /\ run_state = "running"
       /\ Len(context) < Len(lead_gen.tasks)
       /\ exc' = e
       /\ run_state' = FailedRun(e).run_state
       /\ ui' = FailedRun(e).ui
       /\ session_state' = [results |-> NoResults, results_list |-> NotStored]
       /\ UNCHANGED <<environ, cache, lead_gen, context, sidebar,
                      pricing_tracker, usage_log>>

\* kickoff: the next unit's execution raises; the exception leaves kickoff
\* as it is and reaches the run handler
ExecUnitRaises(cause) ==
    LET e == [kind |-> "execution", message |-> cause, origin |-> NextUnit]
    IN /\ run_state = "running"
       /\ Len(context) < Len(lead_gen.tasks)
       /\ exc' = e
       /\ run_state' = FailedRun(e).run_state
       /\ ui' = FailedRun(e).ui
       /\ UNCHANGED <<environ, cache, session_state, lead_gen, context, sidebar,
                      pricing_tracker, usage_log>>

\* the extraction of every results object kickoff may return here, computed
\* once
ResultsDrawn == [shape : Shapes, raw : RawInputs \cup RunRaws \cup DisplayRaws]
ExtractTable == {[results |-> r, out |-> Extract(r)] : r \in ResultsDrawn}
ExtractOf(results) == (CHOOSE e \in ExtractTable : e.results = results).out

\* kickoff returns after the last unit (172-244): the results are stored,
\* the status shows completion and the extracted list is stored.  An
\* exception that leaves the extraction skips the store and the display and
\* reaches the display handler (326-329), which shows the stored results
KickoffReturns(shape) ==
    LET results == [shape |-> shape, raw |-> context[Len(context)].raw]
    IN /\ run_state = "running"
       /\ Len(context) = Len(lead_gen.tasks)
       /\ IF ExtractOf(results).raised
          THEN /\ session_state' = [session_state EXCEPT !.results = results]
               /\ ui' = [ui EXCEPT !.status = "complete",
                                   !.error = <<"Error displaying results: ">>,
                                   !.code = JStr(results.raw)]
               /\ run_state' = "reporting"
          ELSE /\ session_state' =
                      [results |-> results,
                       results_list |-> [set |-> TRUE, v |-> ExtractOf(results).list]]
               /\ ui' = [ui EXCEPT !.status = "complete"]
               /\ run_state' = "rendering"
       /\ UNCHANGED <<environ, cache, lead_gen, context, exc, sidebar,
                      pricing_tracker, usage_log>>

\* what the rest of the success branch (246-415) renders: the display loop
\* works on the stored list itself, the display handler (326-329) shows the
\* stored results, the report reads the stored list
Rendered(results, list) ==
    [results_list |-> [set |-> TRUE, v |-> Display(list).leads],
     ui |-> [status |-> "complete",
             error |-> IF Display(list).raised
                       THEN <<"Error displaying results: ">> ELSE <<>>,
             warning |-> <<>>,
             shown |-> Display(list).shown,
             raw_view |-> IF Display(list).raised THEN Absent
                          ELSE JList(Display(list).leads),
             code |-> IF Display(list).raised THEN JStr(results.raw) ELSE Absent,
             download |-> Report([set |-> TRUE, v |-> Display(list).leads])]]

\* the results are displayed and the report is offered; after the display
\* handler only the report (331-415), read from the stored list, is left;
\* the run is over
Render ==
    /\ run_state \in {"rendering", "reporting"}
    /\ IF run_state = "rendering"
       THEN /\ session_state' =
                   [session_state EXCEPT !.results_list =
                       Rendered(session_state.results, session_state.results_list.v).results_list]
            /\ ui' = Rendered(session_state.results, session_state.results_list.v).ui
       ELSE /\ session_state' = session_state
            /\ ui' = [ui EXCEPT !.download = Report(session_state.results_list)]
    /\ run_state' = "completed"
    /\ UNCHANGED <<environ, cache, lead_gen, context, exc, sidebar,
                   pricing_tracker, usage_log>>

\* the cached instance outlives its one-hour ttl
CacheExpires(arg) ==
    /\ cache[arg].built
    /\ cache' = [cache EXCEPT ![arg] = NoInstance]
    /\ UNCHANGED <<environ, session_state, run_state, lead_gen, context, exc, ui, sidebar,
                   pricing_tracker, usage_log>>

\* another browser session of the same server process presses Generate
\* with valid inputs while this one is anywhere: its sidebar writes the
\* shared os.environ and its get_lead_generator call (160-166) reads the
\* shared cache, here when the cache holds an instance
OtherSessionCached(openai_api_key, serp_api_key) ==
    LET env == SidebarEnv(environ, openai_api_key, serp_api_key)
        config == SidebarConfig(openai_api_key, serp_api_key)
        g == GetLeadGenerator(ConfigSerperKey(config), env.SERPER_API_KEY,
                              WorkingProvider, CompleteConfig)
    IN /\ env.OPENAI_API_KEY # ""
       /\ cache[ConfigSerperKey(config)].built
       /\ environ' = [env EXCEPT !.SERPER_API_KEY = g.env_serper]
       /\ cache' = g.cache
       /\ UNCHANGED <<session_state, run_state, lead_gen, context, exc, ui, sidebar,
                      pricing_tracker, usage_log>>

\* the same when the cache holds no instance: the other session's call
\* runs the constructor and fills the shared cache
OtherSessionBuild(openai_api_key, serp_api_key, provider, cfg) ==
    LET env == SidebarEnv(environ, openai_api_key, serp_api_key)
        config == SidebarConfig(openai_api_key, serp_api_key)
        g == GetLeadGenerator(ConfigSerperKey(config), env.SERPER_API_KEY, provider, cfg)
    IN /\ env.OPENAI_API_KEY # ""
       /\ ~cache[ConfigSerperKey(config)].built
       /\ environ' = [env EXCEPT !.SERPER_API_KEY = g.env_serper]
       /\ cache' = g.cache
       /\ UNCHANGED <<session_state, run_state, lead_gen, context, exc, ui, sidebar,
                      pricing_tracker, usage_log>>

Next ==
    \/ \E o \in OpenAIKeys, s \in SerperKeys : Rerun(o, s)
    \/ \E o \in OpenAIKeys, s \in SerperKeys, i \in Industries, c \in Countries :
           GenerateMissingInput(o, s, i, c)
    \/ \E o \in OpenAIKeys, s \in SerperKeys, i \in Industries, c \in Countries :
           GenerateMissingKey(o, s, i, c)
    \/ \E o \in OpenAIKeys, s \in SerperKeys, i \in Industries, c \in Countries :
           GenerateCached(o, s, i, c)
    \/ \E o \in OpenAIKeys, s \in SerperKeys, i \in Industries, c \in Countries,
          p \in Providers, f \in Configs : GenerateBuild(o, s, i, c, p, f)
    \/ \E r \in RunRaws \cup IntermediateRaws : ExecUnitReturns(r)
    \/ \E m \in Causes : ExecUnitRaises(m)
    \/ \E h \in Shapes : KickoffReturns(h)
    \/ Render
    \/ \E k \in SerperKeys : CacheExpires(k)

Spec == Init /\ [][Next]_vars

(***************************************************************************)
(* The server process with a second browser session: os.environ and the    *)
(* st.cache_resource cache are shared, everything else belongs to the      *)
(* session that is followed.  The followed session's crew returns one      *)
(* output per unit here.                                                   *)
(***************************************************************************)
ServerRaws == {Fence(Dumps(JList(<<LeadA>>)))}
ServerNext ==
    \/ \E o \in OpenAIKeys, s \in SerperKeys : Rerun(o, s)
    \/ \E o \in OpenAIKeys, s \in SerperKeys, i \in Industries, c \in Countries :
           GenerateMissingInput(o, s, i, c)
    \/ \E o \in OpenAIKeys, s \in SerperKeys, i \in Industries, c \in Countries :
           GenerateMissingKey(o, s, i, c)
    \/ \E o \in OpenAIKeys, s \in SerperKeys, i \in Industries, c \in Countries :
           GenerateCached(o, s, i, c)
    \/ \E o \in OpenAIKeys, s \in SerperKeys, i \in Industries, c \in Countries,
          p \in Providers, f \in Configs : GenerateBuild(o, s, i, c, p, f)
    \/ \E r \in ServerRaws \cup IntermediateRaws : ExecUnitReturns(r)
    \/ KickoffReturns("tasks")
    \/ Render
    \/ \E k \in SerperKeys : CacheExpires(k)
    \/ \E o \in OpenAIKeys, s \in SerperKeys : OtherSessionCached(o, s)
    \/ \E o \in OpenAIKeys, s \in SerperKeys, p \in Providers, f \in Configs :
           OtherSessionBuild(o, s, p, f)

ServerSpec == Init /\ [][ServerNext]_vars

(***************************************************************************)
(* The extraction alone: every state in which the four units of a first    *)
(* run have returned, the last one with any of the final outputs, and the  *)
(* steps that process what kickoff returns.                                *)
(***************************************************************************)
FirstInstance ==
    NewLeadGenerator("", "", [import_ok |-> TRUE, search_ok |-> TRUE, scrape_ok |-> TRUE],
                     [agents |-> AgentNames, tasks |-> TaskNames]).instance

ReturnedContext(raw) ==
    [i \in 1..Len(CrewTasks) |->
        [unit |-> CrewTasks[i],
         raw |-> IF i = Len(CrewTasks) THEN raw ELSE <<"o", "k">>,
         upstream |-> TaskContext(CrewTasks[i])]]

ExtractInit ==
    /\ environ = [OPENAI_API_KEY |-> "sk", SERPER_API_KEY |-> ""]
    /\ cache = [k \in SerperKeys |-> IF k = "" THEN FirstInstance ELSE NoInstance]
    /\ session_state = [results |-> NoResults, results_list |-> NotStored]
    /\ run_state = "running"
    /\ lead_gen = FirstInstance
    /\ \E raw \in RawInputs : context = ReturnedContext(raw)
    /\ exc = NoException
    /\ ui = [NoUI EXCEPT !.status = "running"]
    /\ sidebar = [serp_api_key |-> ""]
    /\ pricing_tracker = ModelsPricing
    /\ usage_log = NoUsage

ExtractNext == (\E h \in Shapes : KickoffReturns(h)) \/ Render

ExtractSpec == ExtractInit /\ [][ExtractNext]_vars

(***************************************************************************)
(* The usage tracker of a session, called by a caller of its two methods.  *)
(***************************************************************************)
TrackUsageCalled(input_tokens, output_tokens) ==
    /\ Len(usage_log.calls) < MaxCalls
    /\ pricing_tracker' = TrackUsage(pricing_tracker, input_tokens, output_tokens)
    /\ usage_log' = [usage_log EXCEPT
           !.calls = Append(@, [input_tokens |-> input_tokens,
                                output_tokens |-> output_tokens])]
    /\ UNCHANGED <<environ, cache, session_state, run_state, lead_gen, context, exc, ui,
                   sidebar>>

GetUsageSummaryCalled ==
    /\ usage_log' = [usage_log EXCEPT
           !.summary = [returned |-> TRUE, dict |-> GetUsageSummary(pricing_tracker)]]
    /\ UNCHANGED <<environ, cache, session_state, run_state, lead_gen, context, exc, ui,
                   sidebar, pricing_tracker>>

PricingNext ==
    \/ \E i \in TokenCounts, o \in TokenCounts : TrackUsageCalled(i, o)
    \/ GetUsageSummaryCalled

PricingSpec == Init /\ [][PricingNext]_vars

(***************************************************************************)
(* The display and the report: the four units have returned and the final  *)
(* output is a fenced list of leads and other entries.                     *)
(***************************************************************************)
DisplayInit ==
    /\ environ = [OPENAI_API_KEY |-> "sk", SERPER_API_KEY |-> ""]
    /\ cache = [k \in SerperKeys |-> IF k = "" THEN FirstInstance ELSE NoInstance]
    /\ session_state = [results |-> NoResults, results_list |-> NotStored]
    /\ run_state = "running"
    /\ lead_gen = FirstInstance
    /\ \E raw \in DisplayRaws : context = ReturnedContext(raw)
    /\ exc = NoException
    /\ ui = [NoUI EXCEPT !.status = "running"]
    /\ sidebar = [serp_api_key |-> ""]
    /\ pricing_tracker = ModelsPricing
    /\ usage_log = NoUsage

DisplayNext == (\E h \in Shapes : KickoffReturns(h)) \/ Render

DisplaySpec == DisplayInit /\ [][DisplayNext]_vars

(***************************************************************************)
(* One run: every state a first press of Generate leaves (the constructor  *)
(* has run, and either raised or handed its instance to kickoff), and the  *)
(* steps of the run from there.  The script runs them without interleaving *)
(* anything else: a crew that was kicked off goes on, each unit returning  *)
(* or raising, and the success branch runs to its end.                     *)
(***************************************************************************)
RunInit ==
    \E o \in OpenAIKeys, s \in SerperKeys, p \in Providers, f \in Configs,
       e0 \in [OPENAI_API_KEY : OpenAIKeys, SERPER_API_KEY : SerperKeys] :
        LET env == SidebarEnv(e0, o, s)
            arg == ConfigSerperKey(SidebarConfig(o, s))
            b == NewLeadGenerator(arg, env.SERPER_API_KEY, p, f)
            e == [kind |-> "construction", message |-> b.error, origin |-> "LeadGenerator"]
        IN /\ env.OPENAI_API_KEY # ""
           /\ environ = [env EXCEPT !.SERPER_API_KEY = b.env_serper]
           /\ cache = [k \in SerperKeys |-> IF k = arg /\ b.ok THEN b.instance ELSE NoInstance]
           /\ session_state = [results |-> NoResults, results_list |-> NotStored]
           /\ context = <<>>
           /\ lead_gen = (IF b.ok THEN b.instance ELSE NoInstance)
           /\ run_state = (IF b.ok THEN "running" ELSE FailedRun(e).run_state)
           /\ exc = (IF b.ok THEN NoException ELSE e)
           /\ ui = (IF b.ok THEN [NoUI EXCEPT !.status = "running"] ELSE FailedRun(e).ui)
           /\ sidebar = [serp_api_key |-> s]
           /\ pricing_tracker = ModelsPricing
           /\ usage_log = NoUsage

RunNext ==
    \/ \E r \in RunRaws \cup IntermediateRaws : ExecUnitReturns(r)
    \/ \E m \in Causes : ExecUnitRaises(m)
    \/ \E h \in Shapes : KickoffReturns(h)
    \/ Render

RunSpec ==
    /\ RunInit
    /\ [][RunNext]_vars
    /\ WF_vars((\E r \in RunRaws \cup IntermediateRaws : ExecUnitReturns(r))
               \/ (\E m \in Causes : ExecUnitRaises(m)))
    /\ WF_vars(\E h \in Shapes : KickoffReturns(h))
    /\ WF_vars(Render)

(***************************************************************************)
(* The claims.                                                             *)
(***************************************************************************)
Range(seq) == {seq[i] : i \in 1..Len(seq)}
\* the stored results and the stored list
StoredRaw == session_state.results.raw
StoredShape == session_state.results.shape
StoredList == session_state.results_list.v
\* the extraction has just stored its list; nothing has been displayed yet
Extracted == run_state = "rendering"
\* an exception has just left the extraction for the display handler
ExtractionRaised == run_state = "reporting"
\* json.loads raises, on the stored raw output, an error the extraction
\* does not catch
Escapes(raw) == ~ParseRaw(raw).ok /\ ParseRaw(raw).raised \notin Caught
\* what the display handler leaves when the extraction raised: an error and
\* the stored results on the page, no record shown
HandlerShown ==
    /\ ui.error = <<"Error displaying results: ">>
    /\ ui.code = JStr(StoredRaw)
    /\ ui.shown = <<>>
\* the diagnostic key of the branch that handles the stored results
DiagnosticKey == IF StoredShape = "tasks" THEN K_raw_output ELSE K_raw_data

\* C1: the four units run in the order generation, contact research,
\* qualification, sales management; every declared context unit of a unit is
\* placed strictly earlier in the crew's task list, and had completed when
\* the unit began.
C1_Order ==
    <<"lead_generation_task", "contact_research_task",
      "lead_qualification_task", "sales_management_task">>
C1_UpstreamFirst ==
    /\ lead_gen.built =>
          /\ lead_gen.tasks = C1_Order
          /\ \A i \in 1..Len(lead_gen.tasks) :
                \A u \in Range(TaskContext(lead_gen.tasks[i])) :
                    \E j \in 1..(i - 1) : lead_gen.tasks[j] = u
    /\ \A i \in 1..Len(context) :
          /\ context[i].unit = C1_Order[i]
          /\ context[i].upstream = TaskContext(context[i].unit)
          /\ \A u \in Range(TaskContext(context[i].unit)) :
                \E j \in 1..(i - 1) : context[j].unit = u
C1_Witness ==
    /\ run_state = "completed"
    /\ Len(context) = 4
    /\ context[3].upstream = <<"lead_generation_task", "contact_research_task">>

\* C2 as stated, for the raw outputs on which the extraction does not
\* raise: it stores a non-empty list whose entries are all dicts.
C2_NonEmptyDicts ==
    Extracted =>
        /\ session_state.results_list.set
        /\ Len(StoredList) >= 1
        /\ \A i \in 1..Len(StoredList) : IsDict(StoredList[i])
\* C2 amended: when json.loads returns or raises JSONDecodeError, extraction
\* stores a list: a parsed JSON array is the list as it is (possibly empty,
\* possibly with entries that are not dicts), and in every other case the
\* list has exactly one entry, a dict.  When json.loads raises another error
\* (RecursionError) the extraction raises it: no list is stored and the
\* display handler shows the error.
C2_ListOrOneDict ==
    /\ Extracted =>
          /\ ~Escapes(StoredRaw)
          /\ session_state.results_list.set
          /\ \/ /\ ParseRaw(StoredRaw).ok
                /\ IsList(ParseRaw(StoredRaw).val)
                /\ StoredList = ParseRaw(StoredRaw).val.v
             \/ /\ ~(ParseRaw(StoredRaw).ok /\ IsList(ParseRaw(StoredRaw).val))
                /\ Len(StoredList) = 1
                /\ IsDict(StoredList[1])
    /\ ExtractionRaised =>
          /\ Escapes(StoredRaw)
          /\ ~session_state.results_list.set
          /\ HandlerShown
C2_Witness ==
    /\ Extracted
    /\ StoredRaw = <<>>
    /\ Len(StoredList) = 1
    /\ IsDict(StoredList[1])

\* C3 as stated, for the arrays the decoder decodes: a fenced serialisation
\* of any array of objects is extracted to that array, whatever its string
\* values contain.
C3_RoundTripAny ==
    \A l \in ObjectLists :
        ((Extracted \/ ExtractionRaised) /\ StoredRaw = Fence(Dumps(JList(l)))
         /\ ~Contains(Dumps(JList(l)), <<Deep>>))
            => (Extracted /\ StoredList = l)
\* C3 amended: the round trip holds for every array of objects whose
\* serialisation does not contain the closing delimiter ``` and which
\* json.loads decodes; on one nested beyond the decoder's recursion limit
\* the extraction raises and stores nothing.
C3_RoundTripNoFenceInside ==
    \A l \in ObjectLists :
        (/\ Extracted \/ ExtractionRaised
         /\ StoredRaw = Fence(Dumps(JList(l)))
         /\ ~Contains(Dumps(JList(l)), FenceClose)) =>
            IF Contains(Dumps(JList(l)), <<Deep>>)
            THEN ExtractionRaised /\ ~session_state.results_list.set
            ELSE Extracted /\ StoredList = l
C3_Witness ==
    /\ Extracted
    /\ StoredRaw = Fence(Dumps(JList(<<LeadA, LeadA>>)))
    /\ StoredList = <<LeadA, LeadA>>

C5_ParseFailedRecord ==
    (Extracted /\ StoredRaw \in OtherTexts) =>
        /\ Len(StoredList) = 1
        /\ IsDict(StoredList[1])
        /\ DOMAIN StoredList[1].v = {K_error, K_raw}
        /\ StoredList[1].v[K_error] =
               JStr(<<"p", "a", "r", "s", "e", "_", "f", "a", "i", "l", "e", "d">>)
        /\ StoredList[1].v[K_raw] =
               JStr(Prefix(StoredRaw, 500)
                    \o (IF Len(StoredRaw) > 500 THEN <<"ELLIPSIS">> ELSE <<>>))
\* C5 amended: text that json.loads rejects with JSONDecodeError gives one
\* record.  From the last task's raw output the record is {raw_output: the
\* whole text}, with no error field and no truncation.  In the two fallback
\* branches it has error "Could not parse results" or "No valid results
\* found" and raw holding the text when it has at most 500 characters, else
\* its first 500 characters followed by the three characters "..." (length
\* 503).  Text on which json.loads raises another error gives no record: the
\* extraction raises and stores nothing.
C5_DiagnosticRecord ==
    ((Extracted \/ ExtractionRaised) /\ ~ParseRaw(StoredRaw).ok) =>
        IF Escapes(StoredRaw)
        THEN ExtractionRaised /\ ~session_state.results_list.set
        ELSE
        /\ Extracted
        /\ Len(StoredList) = 1
        /\ IsDict(StoredList[1])
        /\ IF StoredShape = "tasks"
           THEN StoredList[1].v = (K_raw_output :> JStr(StoredRaw))
           ELSE /\ DOMAIN StoredList[1].v = {K_error, K_raw}
                /\ StoredList[1].v[K_error] =
                       JStr(IF StoredShape = "no_task_raw"
                            THEN MsgCouldNotParse ELSE MsgNoValidResults)
                /\ IsStr(StoredList[1].v[K_raw])
                /\ Len(StoredRaw) <= 500 => StoredList[1].v[K_raw].v = StoredRaw
                /\ Len(StoredRaw) > 500 =>
                       /\ Len(StoredList[1].v[K_raw].v) = 503
                       /\ SubSeq(StoredList[1].v[K_raw].v, 1, 500) = SubSeq(StoredRaw, 1, 500)
                       /\ SubSeq(StoredList[1].v[K_raw].v, 501, 503) = <<".", ".", ".">>
C5_Witness ==
    /\ Extracted
    /\ StoredShape = "no_tasks"
    /\ Len(StoredRaw) = 501
    /\ Len(StoredList[1].v[K_raw].v) = 503

\* C6 as stated: a parsed scalar gives one entry holding the parsed value
\* under a diagnostic key; a parsed array is the result.
C6_ScalarValueKept ==
    /\ \A x \in Scalars :
          (Extracted /\ StoredRaw \in {Dumps(x), Fence(Dumps(x))}) =>
              /\ Len(StoredList) = 1
              /\ IsDict(StoredList[1])
              /\ \E k \in DOMAIN StoredList[1].v : StoredList[1].v[k] = x
    /\ \A l \in AnyLists :
          (/\ Extracted
           /\ StoredRaw = Dumps(JList(l))
           /\ ~Contains(StoredRaw, FenceOpen)) => StoredList = l
\* C6 amended: a parsed scalar gives one entry holding the whole raw text as
\* a string under raw_output (raw_data in the fallback branches), not the
\* parsed value; a parsed array is the result.
C6_ScalarRawTextKept ==
    /\ \A x \in Scalars :
          ((Extracted \/ ExtractionRaised)
           /\ StoredRaw \in {Dumps(x), Fence(Dumps(x))}) =>
              /\ Extracted
              /\ StoredList = <<JDict(DiagnosticKey :> JStr(StoredRaw))>>
    /\ \A l \in AnyLists :
          (/\ Extracted \/ ExtractionRaised
           /\ StoredRaw = Dumps(JList(l))
           /\ ParseRaw(StoredRaw).ok
           /\ ~Contains(StoredRaw, FenceOpen)) => (Extracted /\ StoredList = l)
C6_Witness ==
    /\ Extracted
    /\ StoredShape = "tasks"
    /\ StoredRaw = Fence(Dumps(JInt(7)))
    /\ StoredList = <<JDict(K_raw_output :> JStr(Fence(Dumps(JInt(7)))))>>

\* the place of a unit in the order of C1
UnitIndex(u) == CHOOSE i \in 1..Len(C1_Order) : C1_Order[i] = u
ExecutionFailed == run_state = "failed" /\ exc.kind = "execution"

\* C7 as stated: when a unit raises the run is failed at once, no later unit
\* has executed, and the error shown identifies the failing unit and carries
\* the cause.
C7_ErrorNamesUnit ==
    /\ run_state \in {"running", "rendering", "reporting", "completed"} => exc = NoException
    /\ ExecutionFailed =>
          /\ Len(context) = UnitIndex(exc.origin) - 1
          /\ ui.status = "error"
          /\ exc.message \in Range(ui.error)
          /\ exc.origin \in Range(ui.error)
\* C7 amended: when a unit raises the run is failed at once, no later unit
\* has executed, and the error shown is "An error occurred: " followed by
\* the message of the underlying exception; it names no unit.
C7_ErrorCarriesCause ==
    /\ run_state \in {"running", "rendering", "reporting", "completed"} => exc = NoException
    /\ ExecutionFailed =>
          /\ Len(context) = UnitIndex(exc.origin) - 1
          /\ ui.status = "error"
          /\ ui.error = <<"An error occurred: ", exc.message>>
          /\ \A u \in TaskNames : u \notin Range(ui.error)
C7_Witness ==
    /\ ExecutionFailed
    /\ exc.origin = "contact_research_task"
    /\ Len(context) = 1
    /\ ui.error = <<"An error occurred: ", "timeout">>

\* C8: a step that leaves the run failed by a raising unit stores nothing
\* (no extraction: results and list stay as they were), displays no record,
\* offers no download, shows the cause and no unit's raw output, and
\* executes no unit again; while the run stays failed no unit executes.
C8_FailedRunYieldsNothing ==
    [][/\ (run_state' = "failed" /\ exc'.kind = "execution") =>
             /\ session_state' = session_state
             /\ ui'.shown = <<>>
             /\ ui'.download = NoDownload
             /\ ui'.raw_view = Absent
             /\ ui'.code = Absent
             /\ ui'.error = <<"An error occurred: ", exc'.message>>
             /\ exc'.message \in Causes
             /\ context' = context
             /\ exc'.origin \notin {context'[i].unit : i \in 1..Len(context')}
       /\ (run_state = "failed" /\ run_state' \in {"failed", "idle"}) =>
             Len(context') <= Len(context)]_vars
C8_Witness ==
    /\ ExecutionFailed
    /\ Len(context) >= 1
    /\ session_state.results_list.set
    /\ ui.shown = <<>>
    /\ ui.download = NoDownload

\* a run is under way
Started == run_state \in {"running", "rendering", "reporting"}
Terminal == run_state \in {"completed", "failed"}
\* the stored raw output parses at no tier
StoredUnparseable == ~ParseRaw(StoredRaw).ok

\* C9: a started run ends completed or failed.  A run whose units all
\* returned is completed, also when the final output does not parse: the
\* list then holds one diagnostic entry, which is displayed and reported.  A
\* failed run comes from a construction or execution error and has no
\* records; the extraction and rendering steps never lead to failed.
C9_States ==
    /\ run_state \in {"idle", "running", "rendering", "reporting", "completed", "failed"}
    /\ run_state = "completed" =>
          /\ exc = NoException
          /\ ui.status = "complete"
          /\ Len(context) = 4
    /\ (run_state = "completed" /\ StoredUnparseable) =>
          /\ session_state.results_list.set
          /\ Len(StoredList) = 1
          /\ IsDict(StoredList[1])
          /\ (Has(StoredList[1], K_raw_output) \/ Has(StoredList[1], K_error))
          /\ ui.error = <<>>
          /\ Len(ui.shown) = 1
          /\ ui.download.kind = "report"
          /\ Len(ui.download.leads) = 1
    /\ run_state = "failed" =>
          /\ exc.kind \in {"construction", "execution"}
          /\ ui.status = "error"
          /\ ui.shown = <<>>
          /\ ui.download = NoDownload
C9_TwoOutcomes ==
    /\ []C9_States
    /\ [][/\ run_state \in {"rendering", "reporting"} =>
                 run_state' \in {"rendering", "reporting", "completed"}
          /\ (run_state = "running" /\ run_state' = "failed") =>
                 exc'.kind = "execution"]_vars
    /\ (Started ~> Terminal)

\* C10: the scrape tool is available exactly when its constructor succeeds
\* and the search tool exactly when a key is present and its constructor
\* succeeds, whatever the other constructor does; a failed tool is absent,
\* and no failure of _initialize_tools reaches the caller.
C10_ToolsOf(g) ==
    /\ (g.scrape_tool # NoTool) = (g.provider.import_ok /\ g.provider.scrape_ok)
    /\ (g.search_tool # NoTool) =
           (g.provider.import_ok /\ g.provider.search_ok /\ g.serper_api_key # "")
C10_IndependentTools ==
    /\ lead_gen.built => C10_ToolsOf(lead_gen)
    /\ \A k \in SerperKeys : cache[k].built => C10_ToolsOf(cache[k])
    /\ exc.message # "tool initialization"
C10_Witness ==
    /\ lead_gen.built
    /\ lead_gen.serper_api_key # ""
    /\ lead_gen.provider.import_ok
    /\ ~lead_gen.provider.search_ok
    /\ lead_gen.provider.scrape_ok
    /\ lead_gen.search_tool = NoTool
    /\ lead_gen.scrape_tool = "ScrapeWebsiteTool"

(***************************************************************************)
(* Claims about the construction of the generator, on ServerSpec.          *)
(***************************************************************************)
\* the step in which the followed session's run builds its generator: the
\* cache held no instance before it and the run starts with the new one
Constructs ==
    /\ ~cache[""].built
    /\ run_state' = "running"
    /\ lead_gen'.built
\* a search credential is supplied to the construction of instance g during
\* a script run that read the sidebar field s: the field holds one, or the
\* server process was started with one in its environment
Supplied(g, s) == g.serper_api_key # "" /\ g.serper_api_key \in {s} \cup ProcessSerperKeys

\* C11: at every construction the search tool is available exactly when a
\* search credential is supplied to that construction and the search
\* provider initialises without error; a credential that an earlier sidebar
\* input left behind, the field being empty now, does not make it available
C11_SearchIffSupplied ==
    [][Constructs =>
         ((lead_gen'.search_tool # NoTool)
            <=> (/\ Supplied(lead_gen', sidebar'.serp_api_key)
                 /\ lead_gen'.provider.import_ok
                 /\ lead_gen'.provider.search_ok))]_vars

\* every generator that exists: the one of the followed run and the cached
Instances == {g \in {lead_gen} \cup {cache[k] : k \in SerperKeys} : g.built}
Requested(role) ==
    CASE role \in {"lead_generator", "contact_agent"} -> {"SerperDevTool", "ScrapeWebsiteTool"}
      [] role = "lead_qualifier" -> {"SerperDevTool"}
      [] role = "sales_manager" -> {}
Available(g) == {g.search_tool, g.scrape_tool} \ {NoTool}

\* C12: every generator has one agent per role, the tools of each agent are
\* exactly the tools its role asks for that are available, each once, and
\* no construction fails because a tool is unavailable
C12_ToolsAreIntersection ==
    /\ \A g \in Instances :
          /\ DOMAIN g.agent_tools = AgentNames
          /\ \A r \in AgentNames :
                /\ Range(g.agent_tools[r]) = Requested(r) \cap Available(g)
                /\ Len(g.agent_tools[r]) = Cardinality(Requested(r) \cap Available(g))
    /\ exc.kind = "construction" => exc.message # "tool initialization"
\* a run whose generator was built without the search tool and with the
\* scrape tool
C12_Witness ==
    /\ run_state = "running"
    /\ lead_gen.search_tool = NoTool
    /\ lead_gen.scrape_tool # NoTool
    /\ lead_gen.agent_tools["lead_generator"] = <<"ScrapeWebsiteTool">>
    /\ lead_gen.agent_tools["lead_qualifier"] = <<>>

RunStarts == run_state # "running" /\ run_state' = "running"

C15_CredentialKeyed ==
    [][RunStarts => lead_gen'.serper_api_key = environ'.SERPER_API_KEY]_vars

(***************************************************************************)
(* Claims about the input validation, on Spec.                             *)
(***************************************************************************)
\* a step of the script, as opposed to the expiry of a cache entry
ScriptRuns ==
    <<environ, run_state, lead_gen, context, exc, ui, sidebar>>'
        # <<environ, run_state, lead_gen, context, exc, ui, sidebar>>

\* C16: a script run that ends with the validation error for a missing
\* industry or country constructs no generator and executes no unit: the
\* cache and the stored results are what they were, the run holds no
\* generator and no unit output and is not started
C16_ValidationStopsRun ==
    [][ScriptRuns /\ ui'.error = <<"Please enter an industry and country">> =>
          /\ cache' = cache
          /\ session_state' = session_state
          /\ lead_gen' = NoInstance
          /\ context' = <<>>
          /\ run_state' = "idle"
          /\ ui'.status = "none" /\ ui'.download = NoDownload]_vars
\* the validation error on the page of a session that has stored results
\* of an earlier run, the cache being empty
C16_Witness ==
    /\ ui.error = <<"Please enter an industry and country">>
    /\ session_state.results_list.set
    /\ ~cache[""].built

(***************************************************************************)
(* Claims about the display and the report, on DisplaySpec.                *)
(***************************************************************************)
\* the run is over and its list is stored
Displayed == run_state = "completed" /\ session_state.results_list.set
StoredDicts == SelectSeq(StoredList, IsDict)
\* the position in the stored list of its j-th dict entry
DictIndex(j) ==
    CHOOSE i \in 1..Len(StoredList) :
        /\ IsDict(StoredList[i])
        /\ Cardinality({k \in 1..i : IsDict(StoredList[k])}) = j

\* C17: after a run every dict entry of the stored list has its section on
\* the page and its section in the report, in list order, whatever entries
\* that are not dicts stand before or after it
C17_EveryDictProcessed ==
    Displayed =>
        /\ Len(ui.shown) = Len(StoredDicts)
        /\ Len(ui.download.leads) = Len(StoredDicts)
        /\ \A j \in 1..Len(StoredDicts) :
              /\ ui.shown[j].idx = DictIndex(j)
              /\ ui.shown[j].score = Get(StoredDicts[j], K_score, S_NA)
              /\ ui.download.leads[j].score = Get(StoredDicts[j], K_score, S_NA)

\* the first present key of an ordered alias pair
FirstPresent(lead, key, alias) == IF Has(lead, key) THEN lead.v[key] ELSE lead.v[alias]
\* the section of the report that belongs to the entry at position i
ReportOf(i) == ui.download.leads[Cardinality({k \in 1..i : IsDict(StoredList[k])})]

\* C18: for every displayed record with a company, website or
\* recommendation key, the page and the report both show the value of the
\* first present key of the field: company_name before company,
\* website_url before link, sales_recommendations before recommendation
C18_AliasResolution ==
    Displayed =>
        \A j \in 1..Len(ui.shown) :
            LET lead == StoredList[ui.shown[j].idx]
                rep == ReportOf(ui.shown[j].idx)
            IN /\ Has(lead, K_company_name) \/ Has(lead, K_company) =>
                     /\ ui.shown[j].company_name = FirstPresent(lead, K_company_name, K_company)
                     /\ ui.shown[j].title = FirstPresent(lead, K_company_name, K_company)
                     /\ rep.company_name = FirstPresent(lead, K_company_name, K_company)
               /\ Has(lead, K_website_url) \/ Has(lead, K_link) =>
                     /\ ui.shown[j].website = FirstPresent(lead, K_website_url, K_link)
                     /\ rep.website = FirstPresent(lead, K_website_url, K_link)
               /\ Has(lead, K_sales_recommendations) \/ Has(lead, K_recommendation) =>
                     /\ ui.shown[j].recommendations =
                            FirstPresent(lead, K_sales_recommendations, K_recommendation)
                     /\ rep.recommendations =
                            FirstPresent(lead, K_sales_recommendations, K_recommendation)

\* the score of a record is absent, null, text that is no number, or a
\* number outside 1 to 10
OddScore(lead) ==
    \/ ~Has(lead, K_score)
    \/ lead.v[K_score].t = "none"
    \/ /\ lead.v[K_score].t = "str"
       /\ \E i \in 1..Len(lead.v[K_score].v) : lead.v[K_score].v[i] \notin Digits
    \/ lead.v[K_score].t = "int" /\ lead.v[K_score].v \notin 1..10
IsShown(i) == \E j \in 1..Len(ui.shown) : ui.shown[j].idx = i

\* C19: a dict record whose score is absent, null, not a number or outside
\* 1 to 10 is displayed like any other, and so is every dict record that
\* follows it in the list
C19_OddScoreDisplayed ==
    Displayed =>
        \A i \in 1..Len(StoredList) :
            IsDict(StoredList[i]) /\ OddScore(StoredList[i]) =>
                /\ IsShown(i)
                /\ \A k \in (i + 1)..Len(StoredList) : IsDict(StoredList[k]) => IsShown(k)

(***************************************************************************)
(* Claims about the usage tracker, on PricingSpec.                         *)
(***************************************************************************)
RECURSIVE SumOf(_, _)
SumOf(calls, field) ==
    IF calls = <<>> THEN 0
    ELSE calls[1][field] + SumOf(Tail(calls), field)
\* the counters hold the sums of the arguments of the calls made so far
CountersAreSums ==
    /\ pricing_tracker.input_tokens = SumOf(usage_log.calls, "input_tokens")
    /\ pricing_tracker.output_tokens = SumOf(usage_log.calls, "output_tokens")
    /\ pricing_tracker.total_tokens
         = pricing_tracker.input_tokens + pricing_tracker.output_tokens

\* C20: after any sequence of track_usage calls with counts that are not
\* negative, input_tokens and output_tokens are the sums of the arguments
\* of the calls, total_tokens is their sum, no counter ever decreases, and
\* get_usage_summary returns the three values and leaves the tracker as
\* it is
C20_CountersAdd ==
    [][/\ CountersAreSums /\ CountersAreSums'
       /\ pricing_tracker'.input_tokens >= pricing_tracker.input_tokens
       /\ pricing_tracker'.output_tokens >= pricing_tracker.output_tokens
       /\ pricing_tracker'.total_tokens >= pricing_tracker.total_tokens
       /\ usage_log'.summary # usage_log.summary =>
             /\ pricing_tracker' = pricing_tracker
             /\ usage_log'.summary.dict.input_tokens = pricing_tracker.input_tokens
             /\ usage_log'.summary.dict.output_tokens = pricing_tracker.output_tokens
             /\ usage_log'.summary.dict.total_tokens = pricing_tracker.total_tokens]_vars
\* a summary returned after calls that counted input and output tokens,
\* the first of them with no tokens at all
C20_Witness ==
    /\ Len(usage_log.calls) = MaxCalls
    /\ usage_log.calls[1] = [input_tokens |-> 0, output_tokens |-> 0]
    /\ usage_log.summary.returned
    /\ usage_log.summary.dict.total_tokens = pricing_tracker.total_tokens
    /\ pricing_tracker.input_tokens > 0
    /\ pricing_tracker.output_tokens > 0

(***************************************************************************)
(* Claims about the marker in the raw output, on ExtractSpec.              *)
(***************************************************************************)
\* the text after the first ```json up to the next ```, or to the end of
\* the text when no ``` follows
AfterMarker(raw) ==
    LET from == Find(raw, FenceOpen, 1) + Len(FenceOpen)
        close == Find(raw, FenceClose, from)
    IN SubSeq(raw, from, IF close = 0 THEN Len(raw) ELSE close - 1)
\* one entry, a dict that holds the raw text under a diagnostic key
OneDiagnostic ==
    /\ Len(StoredList) = 1
    /\ IsDict(StoredList[1])
    /\ \/ StoredList[1].v = (DiagnosticKey :> JStr(StoredRaw))
       \/ /\ DOMAIN StoredList[1].v = {K_error, K_raw}
          /\ StoredList[1].v[K_raw] = JStr(Truncated(StoredRaw))

\* C21: when the raw output contains the marker ```json, what is
\* extracted is the parse of the text after the first marker up to the next
\* ``` and never the parse of the whole text: a parsed array is the list, a
\* parsed object its one entry, and when that text fails to parse (or is
\* another value) the list is one diagnostic entry, also when the whole
\* text is valid JSON
C21_OnlyFencedTextParsed ==
    ((Extracted \/ ExtractionRaised) /\ Contains(StoredRaw, FenceOpen)) =>
        LET p == Loads(AfterMarker(StoredRaw))
        IN /\ Extracted
           /\ session_state.results_list.set
           /\ IF p.ok /\ IsList(p.val) THEN StoredList = p.val.v
              ELSE IF p.ok /\ IsDict(p.val) THEN StoredList = <<p.val>>
              ELSE OneDiagnostic

(***************************************************************************)
(* Claims about the stored results across the runs of a session, on Spec.  *)
(***************************************************************************)
\* kickoff has returned: every unit of the run has returned its output and
\* the script is at or after the store of the results
KickoffReturned ==
    \/ run_state = "running" /\ lead_gen.built /\ Len(context) = Len(lead_gen.tasks)
    \/ run_state \in {"rendering", "reporting"}

\* C22: a step that leaves a run failed, by its construction or by a
\* raising unit, leaves the stored results and the stored list as they
\* were, and in any sequence of runs the two change only in a step taken
\* after kickoff of the current run has returned
C22_FailedRunKeepsStored ==
    [][/\ run_state' = "failed" => session_state' = session_state
       /\ session_state' # session_state => KickoffReturned]_vars
\* a run failed by its construction and one failed by a unit, each in a
\* session that holds the results and the list of an earlier run
C22_Witness ==
    /\ run_state = "failed"
    /\ exc.kind \in {"construction", "execution"}
    /\ session_state.results.shape = "tasks"
    /\ session_state.results_list.set
    /\ StoredList = <<LeadA>>
    /\ exc.kind = "construction" => ~cache[""].built
    /\ exc.kind = "execution" => Len(context) = 3
====
